---- MODULE Spec2Model ----
(***************************************************************************)
(* A model of the default behaviour of spikeinterface's RecordingExtractor  *)
(* (getSnippets and the epoch bookkeeping) and SortingExtractor (the unit   *)
(* property bookkeeping).                                                   *)
(*                                                                          *)
(* Python values whose type the code inspects with isinstance are records   *)
(* [type, v]: a str carries the sequence of its code points, an int a       *)
(* one-element sequence holding the integer.  Frame arguments are ints, as  *)
(* the docstrings type them, on which Python's int() returns its argument.  *)
(***************************************************************************)
EXTENDS Integers, Sequences, FiniteSets, TLC

VARIABLES numFrames, numChannels, snip, epochs, live, ecall, unitIds, unit_properties, ucall

vars == <<numFrames, numChannels, snip, epochs, live, ecall, unitIds, unit_properties, ucall>>

(* ------------------------------ bounds --------------------------------- *)

\* Largest number of frames of a modelled recording.
MaxFrames == 3
\* Largest number of channels of a modelled recording.
MaxChannels == 2
\* Largest snippet_len_before / snippet_len_after.
MaxLen == 2
\* Largest number of entries of start_frames.
MaxSnippets == 2
\* Largest frame number given to addEpoch (the smallest is -1).
MaxEpochFrame == 1
\* Largest unit id of a modelled sorting.
MaxUnits == 2

(* --------------------------- Python values ----------------------------- *)

PyStr(chars) == [type |-> "str", v |-> chars]
PyInt(n) == [type |-> "int", v |-> <<n>>]

\* isinstance(x, str), isinstance(x, int)
IsStr(x) == x.type = "str"
IsInt(x) == x.type = "int"

\* No exception was raised.
NoError == [exc |-> "None", msg |-> ""]
ValueError(m) == [exc |-> "ValueError", msg |-> m]

(* ------------------------ the recording (abstract) --------------------- *)

\* The sample of channel c at frame f: non-zero, and different for every
\* channel and frame, so that copied samples and padding can be told apart.
Sample(c, f) == 10 * (c + 1) + f + 1

\* range(self.getNumChannels())
AllChannels == [k \in 1..numChannels |-> k - 1]

\* getTraces(start_frame, end_frame, channel_ids): the abstract primitive, with
\* the failure conditions of its contract.
getTraces(start_frame, end_frame, channel_ids) ==
    IF \/ start_frame > end_frame
       \/ start_frame < 0 \/ start_frame > numFrames
       \/ end_frame < 0 \/ end_frame > numFrames
       \/ \E k \in 1..Len(channel_ids) : channel_ids[k] \notin 0..(numChannels - 1)
    THEN [err |-> "InvalidRange", traces |-> <<>>]
    ELSE [err |-> "None",
          traces |-> [k \in 1..Len(channel_ids) |->
                        [j \in 1..(end_frame - start_frame) |->
                            Sample(channel_ids[k], start_frame + j - 1)]]]

(* ------------------------------ getSnippets ---------------------------- *)

\* np.zeros((num_channels, snippet_len))
Zeros(num_channels, snippet_len) ==
    [k \in 1..num_channels |-> [j \in 1..snippet_len |-> 0]]

\* A Python slice bound b of a sequence of length n: a negative bound counts
\* from the end, and the result is clamped to 0..n.
SliceBound(b, n) ==
    LET w == IF b < 0 THEN b + n ELSE b
    IN IF w < 0 THEN 0 ELSE IF w > n THEN n ELSE w

\* snippet_chunk[:, b0:b1] = traces, with numpy's broadcasting of a one-column
\* value and its ValueError on any other mismatch of widths.
SliceAssign(chunk, snippet_len, b0, b1, traces) ==
    LET lo == SliceBound(b0, snippet_len)
        hi == SliceBound(b1, snippet_len)
        width == IF hi > lo THEN hi - lo ELSE 0
        tw == IF Len(traces) = 0 THEN 0 ELSE Len(traces[1])
    IN IF tw = width
       THEN [err |-> "None",
             chunk |-> [k \in 1..Len(chunk) |->
                          [j \in 1..snippet_len |->
                              IF lo < j /\ j <= hi THEN traces[k][j - lo] ELSE chunk[k][j]]]]
       ELSE IF tw = 1
       THEN [err |-> "None",
             chunk |-> [k \in 1..Len(chunk) |->
                          [j \in 1..snippet_len |->
                              IF lo < j /\ j <= hi THEN traces[k][1] ELSE chunk[k][j]]]]
       ELSE [err |-> "ValueError", chunk |-> chunk]

InBounds_noUpper(s) == 0 <= s

InBounds_noLower(s) == s < numFrames

\* (0<=start_frames[i]) and (start_frames[i]<num_frames)
InBounds(s) == (0 <= s) /\ (s < numFrames)

\* A window: snippet_range (frames of the recording) and snippet_buffer
\* (columns of the snippet, 0-based, half-open).
Window(r0, r1, b0, b1) == [r0 |-> r0, r1 |-> r1, b0 |-> b0, b1 |-> b1]

ClipLeft_rangeOnly(w) ==
    IF w.r0 < 0 THEN [w EXCEPT !.r0 = 0] ELSE w

\* if snippet_range[0] < 0: move both lower bounds up by the overrun.
ClipLeft(w) ==
    IF w.r0 < 0
    THEN [w EXCEPT !.b0 = w.b0 - w.r0, !.r0 = w.r0 - w.r0]
    ELSE w

ClipRight_none(w) == w

ClipRight_offByOne(w) ==
    IF w.r1 >= numFrames
    THEN [w EXCEPT !.b1 = w.b1 - (w.r1 - (numFrames - 1)),
                   !.r1 = w.r1 - (w.r1 - (numFrames - 1))]
    ELSE w

\* if snippet_range[1] >= num_frames: move both upper bounds down by the overrun.
ClipRight(w) ==
    IF w.r1 >= numFrames
    THEN [w EXCEPT !.b1 = w.b1 - (w.r1 - numFrames),
                   !.r1 = w.r1 - (w.r1 - numFrames)]
    ELSE w

\* One iteration of the loop, for entry i of start_frames: the snippet, the
\* exception it raised if any, and the getTraces calls it made.
SnippetEntry(snippet_len_before, snippet_len_after, s, channel_ids, i) ==
    LET num_channels == Len(channel_ids)
        snippet_len == snippet_len_before + snippet_len_after
        snippet_chunk == Zeros(num_channels, snippet_len)
    IN IF InBounds(s)
       THEN LET w == ClipRight(ClipLeft(Window(s - snippet_len_before,
                                               s + snippet_len_after,
                                               0, snippet_len)))
                call == [entry |-> i, start_frame |-> w.r0, end_frame |-> w.r1,
                         b0 |-> w.b0, b1 |-> w.b1]
                tr == getTraces(w.r0, w.r1, channel_ids)
                asg == SliceAssign(snippet_chunk, snippet_len, w.b0, w.b1, tr.traces)
            IN IF tr.err # "None"
               THEN [err |-> tr.err, chunk |-> snippet_chunk, calls |-> <<call>>]
               ELSE [err |-> asg.err, chunk |-> asg.chunk, calls |-> <<call>>]
       ELSE [err |-> "None", chunk |-> snippet_chunk, calls |-> <<>>]

RECURSIVE SnippetLoop(_, _, _, _, _, _)
\* for i in range(num_snippets): ... snippets.append(snippet_chunk); an
\* exception ends the call and nothing is returned.
SnippetLoop(snippet_len_before, snippet_len_after, start_frames, channel_ids, i, acc) ==
    IF i > Len(start_frames)
    THEN acc
    ELSE LET e == SnippetEntry(snippet_len_before, snippet_len_after,
                               start_frames[i], channel_ids, i)
         IN IF e.err # "None"
            THEN [err |-> e.err, errIndex |-> i, snippets |-> <<>>,
                  calls |-> acc.calls \o e.calls]
            ELSE SnippetLoop(snippet_len_before, snippet_len_after, start_frames,
                             channel_ids, i + 1,
                             [acc EXCEPT !.snippets = Append(@, e.chunk),
                                         !.calls = @ \o e.calls])

\* channel_ids=None is [isNone |-> TRUE, ids |-> <<>>].
NoChannelIds == [isNone |-> TRUE, ids |-> <<>>]
ChannelIds(ids) == [isNone |-> FALSE, ids |-> ids]

\* if channel_ids is None: channel_ids = range(self.getNumChannels())
EffectiveChannelIds(channel_ids) ==
    IF channel_ids.isNone THEN AllChannels ELSE channel_ids.ids

getSnippets(snippet_len_before, snippet_len_after, start_frames, channel_ids) ==
    SnippetLoop(snippet_len_before, snippet_len_after, start_frames,
                EffectiveChannelIds(channel_ids), 1,
                [err |-> "None", errIndex |-> 0, snippets |-> <<>>, calls |-> <<>>])

\* The start frames and channel id lists the model calls getSnippets with.
StartFrameValues == (0 - (MaxLen + 1))..(MaxFrames + 1)
StartFrameLists == UNION {[1..n -> StartFrameValues] : n \in 0..MaxSnippets}
ChannelIdLists ==
    {NoChannelIds} \cup
    {ChannelIds(<<c>>) : c \in 0..(MaxChannels - 1)} \cup
    {ChannelIds(<<MaxChannels - 1, 0>>)}

NoSnippetCall ==
    [called |-> FALSE, snippet_len_before |-> 0, snippet_len_after |-> 0,
     start_frames |-> <<>>, channel_ids |-> <<>>,
     result |-> [err |-> "None", errIndex |-> 0, snippets |-> <<>>, calls |-> <<>>]]

\* A call of getSnippets; the extractor is used by one caller at a time, so a
\* call starts only when the previous one has returned.
GetSnippets ==
    /\ ~snip.called
    /\ \E lb \in 0..MaxLen, la \in 0..MaxLen, sfs \in StartFrameLists, cids \in ChannelIdLists :
          snip' = [called |-> TRUE, snippet_len_before |-> lb, snippet_len_after |-> la,
                   start_frames |-> sfs, channel_ids |-> EffectiveChannelIds(cids),
                   result |-> getSnippets(lb, la, sfs, cids)]
    /\ UNCHANGED <<numFrames, numChannels, epochs, live, ecall, unitIds, unit_properties, ucall>>

\* No epoch operation has been called yet.
NoEpochCall ==
    [op |-> "none", name |-> PyStr(<<>>), start_frame |-> 0, end_frame |-> 0,
     error |-> NoError, names |-> <<>>, info |-> <<>>]

\* No unit property operation has been called yet.
NoUnitCall == [op |-> "none", args |-> <<>>, error |-> NoError, ret |-> <<>>]

InitSnippets ==
    /\ numFrames \in 1..MaxFrames
    /\ numChannels \in 1..MaxChannels
    /\ snip = NoSnippetCall
    /\ epochs = <<>>
    /\ live = {}
    /\ ecall = NoEpochCall
    /\ unitIds = {}
    /\ unit_properties = <<>>
    /\ ucall = NoUnitCall

\* The caller is done with the returned snippets.
ReturnSnippets ==
    /\ snip.called
    /\ snip' = NoSnippetCall
    /\ UNCHANGED <<numFrames, numChannels, epochs, live, ecall, unitIds, unit_properties, ucall>>

NextSnippets == GetSnippets \/ ReturnSnippets

SpecSnippets == InitSnippets /\ [][NextSnippets]_vars

(* ------------------------------- epochs -------------------------------- *)

\* self._epochs is a dict: a sequence of entries [name, start_frame,
\* end_frame] in insertion order, as a Python dict keeps its keys.

\* list(self._epochs.keys())
Keys(d) == [k \in 1..Len(d) |-> d[k].name]

\* key in list(d.keys())
HasKey(d, key) == \E k \in 1..Len(d) : d[k].name = key

\* d[key], for a key of d
Lookup(d, key) ==
    LET k == CHOOSE k \in 1..Len(d) : d[k].name = key
    IN [start_frame |-> d[k].start_frame, end_frame |-> d[k].end_frame]

DictSet_append(d, key, start_frame, end_frame) ==
    Append(d, [name |-> key, start_frame |-> start_frame, end_frame |-> end_frame])

\* d[key] = {...}: a stored key keeps its place and gets the new value, a new
\* key goes to the end.
DictSet(d, key, start_frame, end_frame) ==
    IF HasKey(d, key)
    THEN [k \in 1..Len(d) |->
            IF d[k].name = key
            THEN [name |-> key, start_frame |-> start_frame, end_frame |-> end_frame]
            ELSE d[k]]
    ELSE Append(d, [name |-> key, start_frame |-> start_frame, end_frame |-> end_frame])

\* del d[key]
DictDel(d, key) == SelectSeq(d, LAMBDA e : e.name # key)

addEpoch_unchecked(d, epoch_name, start_frame, end_frame) ==
    [error |-> NoError, epochs |-> DictSet(d, epoch_name, start_frame, end_frame)]

\* addEpoch: the exception raised, if any, and the dict afterwards.
addEpoch(d, epoch_name, start_frame, end_frame) ==
    IF IsStr(epoch_name)
    THEN [error |-> NoError, epochs |-> DictSet(d, epoch_name, start_frame, end_frame)]
    ELSE [error |-> ValueError("epoch_name must be a string"), epochs |-> d]

removeEpoch_silent(d, epoch_name) ==
    IF IsStr(epoch_name)
    THEN [error |-> NoError, epochs |-> DictDel(d, epoch_name)]
    ELSE [error |-> ValueError("epoch_name must be a string"), epochs |-> d]

\* removeEpoch: the exception raised, if any, and the dict afterwards.
removeEpoch(d, epoch_name) ==
    IF IsStr(epoch_name)
    THEN IF HasKey(d, epoch_name)
         THEN [error |-> NoError, epochs |-> DictDel(d, epoch_name)]
         ELSE [error |-> ValueError("This epoch has not been added"), epochs |-> d]
    ELSE [error |-> ValueError("epoch_name must be a string"), epochs |-> d]

\* getEpochInfo: the exception raised, if any, and the dict returned (a
\* sequence of one record, empty when the call raised).
getEpochInfo(d, epoch_name) ==
    IF IsStr(epoch_name)
    THEN IF HasKey(d, epoch_name)
         THEN [error |-> NoError, info |-> <<Lookup(d, epoch_name)>>]
         ELSE [error |-> ValueError("This epoch has not been added"), info |-> <<>>]
    ELSE [error |-> ValueError("epoch_name must be a string"), info |-> <<>>]

RECURSIVE StrLess(_, _)
\* a < b for two str values given by their code points: the first differing
\* code point decides, and a proper prefix is smaller.
StrLess(a, b) ==
    IF Len(b) = 0 THEN FALSE
    ELSE IF Len(a) = 0 THEN TRUE
    ELSE IF Head(a) # Head(b) THEN Head(a) < Head(b)
    ELSE StrLess(Tail(a), Tail(b))

TupleLess_keyOnly(x, y) == x[1] < y[1]

\* x < y for two tuples (start_frame, epoch_name) of zip(epoch_start_frames,
\* epoch_names), as Python orders tuples: by the first component, and by the
\* second when the first are equal.
TupleLess(x, y) ==
    \/ x[1] < y[1]
    \/ x[1] = y[1] /\ StrLess(x[2].v, y[2].v)

\* x put into the sorted sequence srt, after every element that is not
\* greater than x.
RECURSIVE Insert(_, _)
Insert(x, srt) ==
    IF Len(srt) = 0 THEN <<x>>
    ELSE IF TupleLess(x, Head(srt)) THEN <<x>> \o srt
    ELSE <<Head(srt)>> \o Insert(x, Tail(srt))

\* sorted(seq): a stable sort by TupleLess.
RECURSIVE Sorted(_)
Sorted(seq) ==
    IF Len(seq) = 0 THEN <<>>
    ELSE Insert(seq[Len(seq)], Sorted(SubSeq(seq, 1, Len(seq) - 1)))

getEpochNames_unsorted(d) == Keys(d)

\* getEpochNames: the keys, ordered by sorted(zip(epoch_start_frames,
\* epoch_names)); the start frames are read with getEpochInfo.
getEpochNames(d) ==
    LET epoch_names == Keys(d)
        epoch_start_frames ==
            [k \in 1..Len(epoch_names) |-> getEpochInfo(d, epoch_names[k]).info[1].start_frame]
        zipped == [k \in 1..Len(epoch_names) |-> <<epoch_start_frames[k], epoch_names[k]>>]
        srt == Sorted(zipped)
    IN IF Len(epoch_names) = 0
       THEN epoch_names
       ELSE [k \in 1..Len(srt) |-> srt[k][2]]

\* The epoch names the model calls with: "", "ab" and "b", and the int 1,
\* which is no str.
Name_empty == PyStr(<<>>)
Name_ab == PyStr(<<97, 98>>)
Name_b == PyStr(<<98>>)
EpochNameArgs == {Name_empty, Name_ab, Name_b, PyInt(1)}
\* The frame numbers the model calls addEpoch with.
EpochFrames == (0 - 1)..MaxEpochFrame

\* The operations on the epochs are called by one caller at a time: a call
\* starts only when the previous one has returned.
AddEpoch ==
    /\ ecall.op = "none"
    /\ \E epoch_name \in EpochNameArgs, start_frame \in EpochFrames, end_frame \in EpochFrames :
           LET r == addEpoch(epochs, epoch_name, start_frame, end_frame)
           IN /\ epochs' = r.epochs
              /\ live' = IF r.error = NoError THEN live \cup {epoch_name} ELSE live
              /\ ecall' = [op |-> "addEpoch", name |-> epoch_name,
                           start_frame |-> start_frame, end_frame |-> end_frame,
                           error |-> r.error, names |-> <<>>, info |-> <<>>]
              /\ UNCHANGED <<numFrames, numChannels, snip, unitIds, unit_properties, ucall>>

RemoveEpoch ==
    /\ ecall.op = "none"
    /\ \E epoch_name \in EpochNameArgs :
           LET r == removeEpoch(epochs, epoch_name)
           IN /\ epochs' = r.epochs
              /\ live' = IF r.error = NoError THEN live \ {epoch_name} ELSE live
              /\ ecall' = [op |-> "removeEpoch", name |-> epoch_name,
                           start_frame |-> 0, end_frame |-> 0,
                           error |-> r.error, names |-> <<>>, info |-> <<>>]
              /\ UNCHANGED <<numFrames, numChannels, snip, unitIds, unit_properties, ucall>>

GetEpochNames ==
    /\ ecall.op = "none"
    /\ ecall' = [op |-> "getEpochNames", name |-> Name_empty,
                 start_frame |-> 0, end_frame |-> 0,
                 error |-> NoError, names |-> getEpochNames(epochs), info |-> <<>>]
    /\ UNCHANGED <<numFrames, numChannels, snip, epochs, live, unitIds, unit_properties, ucall>>

GetEpochInfo ==
    /\ ecall.op = "none"
    /\ \E epoch_name \in EpochNameArgs :
           LET r == getEpochInfo(epochs, epoch_name)
           IN /\ ecall' = [op |-> "getEpochInfo", name |-> epoch_name,
                           start_frame |-> 0, end_frame |-> 0,
                           error |-> r.error, names |-> <<>>, info |-> r.info]
              /\ UNCHANGED <<numFrames, numChannels, snip, epochs, live, unitIds,
                             unit_properties, ucall>>

InitEpochs ==
    /\ numFrames = MaxFrames
    /\ numChannels = MaxChannels
    /\ snip = NoSnippetCall
    /\ epochs = <<>>
    /\ live = {}
    /\ ecall = NoEpochCall
    /\ unitIds = {}
    /\ unit_properties = <<>>
    /\ ucall = NoUnitCall

\* The caller is done with the outcome of the call.
ReturnEpochCall ==
    /\ ecall.op # "none"
    /\ ecall' = NoEpochCall
    /\ UNCHANGED <<numFrames, numChannels, snip, epochs, live, unitIds, unit_properties, ucall>>

NextEpochs == AddEpoch \/ RemoveEpoch \/ GetEpochNames \/ GetEpochInfo \/ ReturnEpochCall

SpecEpochs == InitEpochs /\ [][NextEpochs]_vars

(* --------------------------- unit properties --------------------------- *)

\* self._unit_properties is a dict from unit id to a dict from property name
\* to data: a function on the unit ids that are keys, whose values are
\* sequences of entries [name, data]; {} is the function on no unit id.

KeyError == [exc |-> "KeyError", msg |-> ""]
TypeError == [exc |-> "TypeError", msg |-> ""]
NameError == [exc |-> "NameError", msg |-> ""]

\* props[property_name] = property_data
PropSet(props, property_name, property_data) ==
    IF \E k \in 1..Len(props) : props[k].name = property_name
    THEN [k \in 1..Len(props) |->
            IF props[k].name = property_name
            THEN [name |-> property_name, data |-> property_data]
            ELSE props[k]]
    ELSE Append(props, [name |-> property_name, data |-> property_data])

\* self._unit_properties[unit_id][property_name] = property_data: reading
\* self._unit_properties[unit_id] raises KeyError when unit_id is no key.
SetUnitProperty(up, unit_id, property_name, property_data) ==
    IF unit_id.v[1] \in DOMAIN up
    THEN [error |-> NoError,
          unit_properties |->
              [up EXCEPT ![unit_id.v[1]] = PropSet(@, property_name, property_data)]]
    ELSE [error |-> KeyError, unit_properties |-> up]

addUnitProperty_noNameCheck(up, ids, unit_id, property_name, property_data) ==
    IF IsInt(unit_id)
    THEN IF unit_id.v[1] \in ids
         THEN SetUnitProperty(up, unit_id, property_name, property_data)
         ELSE [error |-> ValueError("Non-valid unit_id"), unit_properties |-> up]
    ELSE [error |-> ValueError("unit_id must be an int"), unit_properties |-> up]

\* addUnitProperty, for the unit ids `ids` that getUnitIds returns: the
\* exception raised, if any, and the dict afterwards.
addUnitProperty(up, ids, unit_id, property_name, property_data) ==
    IF IsInt(unit_id)
    THEN IF unit_id.v[1] \in ids
         THEN IF IsStr(property_name)
              THEN SetUnitProperty(up, unit_id, property_name, property_data)
              ELSE [error |-> ValueError("property_name must be a string"),
                    unit_properties |-> up]
         ELSE [error |-> ValueError("Non-valid unit_id"), unit_properties |-> up]
    ELSE [error |-> ValueError("unit_id must be an int"), unit_properties |-> up]

\* getUnitProperty(self, property_name), called with the arguments args: a
\* call with any number of arguments but one raises TypeError, and the body
\* reads the name unit_id, which is bound nowhere, and raises NameError.
getUnitProperty(up, args) ==
    IF Len(args) # 1
    THEN [error |-> TypeError, ret |-> <<>>]
    ELSE [error |-> NameError, ret |-> <<>>]

\* The arguments the model calls with: unit ids 1 .. MaxUnits+1 and the str
\* "x"; property names "ab" and "b" and the int 1; data 1 and 2.
UnitIdArgs == {PyInt(u) : u \in 1..(MaxUnits + 1)} \cup {PyStr(<<120>>)}
PropertyNameArgs == {PyStr(<<97, 98>>), PyStr(<<98>>), PyInt(1)}
PropertyDataArgs == {PyInt(1), PyInt(2)}

\* The operations on the unit properties are called by one caller at a time.
AddUnitProperty ==
    /\ ucall.op = "none"
    /\ \E unit_id \in UnitIdArgs, property_name \in PropertyNameArgs,
          property_data \in PropertyDataArgs :
           LET r == addUnitProperty(unit_properties, unitIds, unit_id,
                                    property_name, property_data)
           IN /\ unit_properties' = r.unit_properties
              /\ ucall' = [op |-> "addUnitProperty",
                           args |-> <<unit_id, property_name, property_data>>,
                           error |-> r.error, ret |-> <<>>]
              /\ UNCHANGED <<numFrames, numChannels, snip, epochs, live, ecall, unitIds>>

\* getUnitProperty(unit_id, property_name), as its documentation has it, or
\* getUnitProperty(property_name), as its signature has it.
GetUnitProperty ==
    /\ ucall.op = "none"
    /\ \E args \in {<<u, n>> : u \in UnitIdArgs, n \in PropertyNameArgs}
                     \cup {<<n>> : n \in PropertyNameArgs} :
           LET r == getUnitProperty(unit_properties, args)
           IN /\ ucall' = [op |-> "getUnitProperty", args |-> args,
                           error |-> r.error, ret |-> r.ret]
              /\ UNCHANGED <<numFrames, numChannels, snip, epochs, live, ecall,
                             unitIds, unit_properties>>

\* The caller is done with the outcome of the call.
ReturnUnitCall ==
    /\ ucall.op # "none"
    /\ ucall' = NoUnitCall
    /\ UNCHANGED <<numFrames, numChannels, snip, epochs, live, ecall, unitIds,
                   unit_properties>>

InitSorting ==
    /\ numFrames = MaxFrames
    /\ numChannels = MaxChannels
    /\ snip = NoSnippetCall
    /\ epochs = <<>>
    /\ live = {}
    /\ ecall = NoEpochCall
    /\ unitIds \in SUBSET (1..MaxUnits)
    /\ unit_properties = <<>>
    /\ ucall = NoUnitCall

NextSorting == AddUnitProperty \/ GetUnitProperty \/ ReturnUnitCall

SpecSorting == InitSorting /\ [][NextSorting]_vars

(* ------------------------- claims on getSnippets ----------------------- *)

\* Every channel id of the last call is a channel of the recording.
ValidChannelIds ==
    \A k \in 1..Len(snip.channel_ids) : snip.channel_ids[k] \in 0..(numChannels - 1)

SnippetLen == snip.snippet_len_before + snip.snippet_len_after

\* The frame of the recording that column j (1-based) of the snippet of start
\* frame s stands for.
FrameOfColumn(s, j) == s - snip.snippet_len_before + j - 1

\* C1: an entry s of startFrames with s < 0 or s >= numFrames raises no error,
\* makes no getTraces call, and yields an all-zero snippet of shape
\* (len(channelIds), lenBefore+lenAfter).
C1_OutOfBoundsStartIsZeroSnippet ==
    snip.called =>
        \A i \in 1..Len(snip.start_frames) :
            (snip.start_frames[i] < 0 \/ snip.start_frames[i] >= numFrames) =>
                /\ snip.result.err # "None" => snip.result.errIndex # i
                /\ \A k \in 1..Len(snip.result.calls) : snip.result.calls[k].entry # i
                /\ snip.result.err = "None" =>
                      /\ Len(snip.result.snippets) = Len(snip.start_frames)
                      /\ Len(snip.result.snippets[i]) = Len(snip.channel_ids)
                      /\ \A k \in 1..Len(snip.channel_ids) :
                            /\ Len(snip.result.snippets[i][k]) = SnippetLen
                            /\ \A j \in 1..SnippetLen : snip.result.snippets[i][k][j] = 0

\* A returned call with a start frame below 0 whose window overlaps the
\* recording, and a start frame >= numFrames.
C1_Witness ==
    /\ snip.called
    /\ snip.result.err = "None"
    /\ Len(snip.start_frames) = 2
    /\ snip.start_frames[1] < 0
    /\ snip.start_frames[1] + snip.snippet_len_after > 0
    /\ snip.start_frames[2] >= numFrames
    /\ Len(snip.result.snippets) = 2

\* C2: for a start frame s with 0 <= s < numFrames the snippet has
\* lenBefore+lenAfter columns; column j holds frame s-lenBefore+j of the
\* recording when that frame is in [0, numFrames) and zero otherwise, whichever
\* edges the window overruns.
C2_InBoundsSnippetIsClippedWindow ==
    (snip.called /\ ValidChannelIds) =>
        /\ snip.result.err = "None"
        /\ Len(snip.result.snippets) = Len(snip.start_frames)
        /\ \A i \in 1..Len(snip.start_frames) :
              (0 <= snip.start_frames[i] /\ snip.start_frames[i] < numFrames) =>
                  /\ Len(snip.result.snippets[i]) = Len(snip.channel_ids)
                  /\ \A k \in 1..Len(snip.channel_ids) :
                        /\ Len(snip.result.snippets[i][k]) = SnippetLen
                        /\ \A j \in 1..SnippetLen :
                              LET f == FrameOfColumn(snip.start_frames[i], j)
                              IN snip.result.snippets[i][k][j] =
                                    IF 0 <= f /\ f < numFrames
                                    THEN Sample(snip.channel_ids[k], f)
                                    ELSE 0

\* A returned call with an in-bounds start frame whose window overruns both
\* edges of the recording at once.
C2_Witness ==
    /\ snip.called
    /\ ValidChannelIds
    /\ snip.result.err = "None"
    /\ \E i \in 1..Len(snip.start_frames) :
          /\ 0 <= snip.start_frames[i] /\ snip.start_frames[i] < numFrames
          /\ snip.start_frames[i] - snip.snippet_len_before < 0
          /\ snip.start_frames[i] + snip.snippet_len_after > numFrames
          /\ Len(snip.result.snippets[i]) > 0

\* The start frame of entry i is negative and its window [s-lenBefore,
\* s+lenAfter) still overlaps the recording.
NegativeOverlapping(i) ==
    /\ snip.start_frames[i] < 0
    /\ snip.start_frames[i] + snip.snippet_len_after > 0

C11_GetTracesCallsWithinBounds ==
    (snip.called /\ snip.snippet_len_before >= 0 /\ snip.snippet_len_after >= 0) =>
        \A k \in 1..Len(snip.result.calls) :
            LET c == snip.result.calls[k]
            IN /\ 0 <= c.start_frame
               /\ c.start_frame <= c.end_frame
               /\ c.end_frame <= numFrames
               /\ 0 <= c.b0
               /\ c.b0 <= c.b1
               /\ c.b1 <= SnippetLen
               /\ c.b1 - c.b0 = c.end_frame - c.start_frame

\* getSnippets issued a getTraces call whose window was clipped at both edges
\* of the recording, and one for an empty window.
C11_Witness ==
    /\ snip.called
    /\ \E k \in 1..Len(snip.result.calls) :
          LET c == snip.result.calls[k]
          IN /\ c.start_frame = 0 /\ c.b0 > 0
             /\ c.end_frame = numFrames /\ c.b1 < SnippetLen
             /\ c.start_frame < c.end_frame
    /\ Len(snip.start_frames) = 2
    /\ Len(snip.result.calls) = 2

(* --------------------------- claims on epochs -------------------------- *)

\* The failure kind NotFound of an epoch operation, as the code raises it.
EpochNotFound == ValueError("This epoch has not been added")

\* The str values among the names the model calls with.
EpochNames == {n \in EpochNameArgs : IsStr(n)}

\* The start frame stored for the name n.
StartOf(n) == Lookup(epochs, n).start_frame

\* The place of the name n in the order in which the stored names were added.
AddedAt(n) == CHOOSE k \in 1..Len(epochs) : epochs[k].name = n

\* The order of Python's str comparison on the names of the model:
\* "" < "ab" < "b".
NameRank(n) == IF n = Name_empty THEN 0 ELSE IF n = Name_ab THEN 1 ELSE 2

\* C4: after any sequence of addEpoch and removeEpoch calls, getEpochNames
\* returns exactly the names added and not removed since, each once, ordered by
\* non-decreasing start_frame.
C4_EpochNamesAreLiveNamesByStartFrame ==
    ecall.op = "getEpochNames" =>
        /\ ecall.error = NoError
        /\ {ecall.names[k] : k \in 1..Len(ecall.names)} = live
        /\ Len(ecall.names) = Cardinality(live)
        /\ \A k \in 1..(Len(ecall.names) - 1) :
              StartOf(ecall.names[k]) <= StartOf(ecall.names[k + 1])

\* getEpochNames returned two names in an order other than the one they were
\* added in.
C4_Witness ==
    /\ ecall.op = "getEpochNames"
    /\ Len(ecall.names) = 2
    /\ ecall.names # Keys(epochs)
    /\ StartOf(ecall.names[1]) < StartOf(ecall.names[2])

\* C5 as stated: two stored epochs with the same start_frame appear in the
\* result of getEpochNames in the order in which they were added.
C5_TiesInInsertionOrder ==
    ecall.op = "getEpochNames" =>
        \A i, j \in 1..Len(ecall.names) :
            (i < j /\ StartOf(ecall.names[i]) = StartOf(ecall.names[j])) =>
                AddedAt(ecall.names[i]) < AddedAt(ecall.names[j])

\* C5 amended: two stored epochs with the same start_frame appear in the result
\* of getEpochNames in ascending order of their names, as Python compares str
\* values, whatever the order in which they were added.
C5_TiesInNameOrder ==
    ecall.op = "getEpochNames" =>
        \A i, j \in 1..Len(ecall.names) :
            (i < j /\ StartOf(ecall.names[i]) = StartOf(ecall.names[j])) =>
                NameRank(ecall.names[i]) < NameRank(ecall.names[j])

\* getEpochNames returned two names of the same start_frame, the one added
\* later first.
C5_Witness ==
    /\ ecall.op = "getEpochNames"
    /\ \E i, j \in 1..Len(ecall.names) :
          /\ i < j
          /\ StartOf(ecall.names[i]) = StartOf(ecall.names[j])
          /\ AddedAt(ecall.names[i]) > AddedAt(ecall.names[j])

\* C6 as stated: every stored epoch has a non-empty string name, a start_frame
\* >= 0 and an end_frame >= start_frame.
C6_StoredEpochsWellFormed ==
    \A k \in 1..Len(epochs) :
        /\ IsStr(epochs[k].name)
        /\ Len(epochs[k].name.v) > 0
        /\ epochs[k].start_frame >= 0
        /\ epochs[k].end_frame >= epochs[k].start_frame

\* C6 amended: every stored epoch has a string name, possibly empty, that no
\* other stored epoch has, and an integer start_frame and end_frame; the
\* start_frame may be negative and the end_frame smaller than the start_frame.
C6_StoredEpochsHaveStringNames ==
    \A k \in 1..Len(epochs) :
        /\ IsStr(epochs[k].name)
        /\ epochs[k].start_frame \in Int
        /\ epochs[k].end_frame \in Int
        /\ \A m \in 1..Len(epochs) : epochs[m].name = epochs[k].name => m = k

\* An epoch of empty name and of end_frame < start_frame is stored next to one
\* of negative start_frame, after a call with a name that is no string.
C6_Witness ==
    /\ \E k \in 1..Len(epochs) :
          /\ Len(epochs[k].name.v) = 0
          /\ epochs[k].end_frame < epochs[k].start_frame
    /\ \E k \in 1..Len(epochs) : epochs[k].start_frame < 0
    /\ ecall.op = "addEpoch"
    /\ ~IsStr(ecall.name)

\* C7: removeEpoch of a name that is not stored fails with NotFound and leaves
\* the epochs unchanged; a successful removeEpoch leaves every other epoch
\* unchanged, and from then on getEpochInfo of the name fails with NotFound
\* until an addEpoch of that name.
C7_RemoveEpoch ==
    [][ /\ (ecall'.op = "removeEpoch" /\ IsStr(ecall'.name)) =>
              IF ecall'.name \in live
              THEN /\ ecall'.error = NoError
                   /\ getEpochInfo(epochs', ecall'.name).error = EpochNotFound
                   /\ Len(epochs') = Len(epochs) - 1
                   /\ \A n \in EpochNames \ {ecall'.name} :
                         getEpochInfo(epochs', n) = getEpochInfo(epochs, n)
              ELSE /\ ecall'.error = EpochNotFound
                   /\ epochs' = epochs
        /\ \A n \in EpochNames :
              (/\ getEpochInfo(epochs, n).error = EpochNotFound
               /\ getEpochInfo(epochs', n).error # EpochNotFound) =>
                  (ecall'.op = "addEpoch" /\ ecall'.name = n)
        /\ (ecall'.op = "getEpochInfo" /\ IsStr(ecall'.name) /\ ecall'.name \notin live') =>
              ecall'.error = EpochNotFound
      ]_vars

\* A removeEpoch succeeded while another epoch is stored.
C7_Witness ==
    /\ ecall.op = "removeEpoch"
    /\ ecall.error = NoError
    /\ Len(epochs) >= 1
    /\ getEpochInfo(epochs, ecall.name).error = EpochNotFound

\* C10: addEpoch with a string name succeeds; afterwards getEpochInfo of the
\* name returns the start_frame and end_frame given, the number of stored
\* epochs has grown by one if the name was not stored and not at all if it was,
\* and every other stored epoch has its start_frame and end_frame as before.
C10_AddEpochInsertsOrOverwrites ==
    [][ (ecall'.op = "addEpoch" /\ IsStr(ecall'.name)) =>
            /\ ecall'.error = NoError
            /\ getEpochInfo(epochs', ecall'.name) =
                  [error |-> NoError,
                   info |-> <<[start_frame |-> ecall'.start_frame,
                               end_frame |-> ecall'.end_frame]>>]
            /\ Len(epochs') = Len(epochs) + (IF ecall'.name \in live THEN 0 ELSE 1)
            /\ \A n \in EpochNames \ {ecall'.name} :
                  getEpochInfo(epochs', n) = getEpochInfo(epochs, n)
      ]_vars

\* An addEpoch has overwritten the epoch added first while another is stored.
C10_Witness ==
    /\ ecall.op = "addEpoch"
    /\ ecall.error = NoError
    /\ Len(epochs) >= 2
    /\ epochs[1].name = ecall.name

(* ----------------------- claims on unit properties --------------------- *)

\* C8: for a unit id u of getUnitIds() and a string name n, addUnitProperty(u,
\* n, d) succeeds, also the first time a property of u is set, and a following
\* getUnitProperty(u, n) returns d.
C8_AddThenGetReturnsData ==
    (/\ ucall.op = "addUnitProperty"
     /\ IsInt(ucall.args[1])
     /\ ucall.args[1].v[1] \in unitIds
     /\ IsStr(ucall.args[2])) =>
        /\ ucall.error = NoError
        /\ getUnitProperty(unit_properties, <<ucall.args[1], ucall.args[2]>>) =
              [error |-> NoError, ret |-> <<ucall.args[3]>>]

\* The failure kind InvalidArgument of addUnitProperty, as the code raises it
\* for the arguments given.
InvalidArgumentOf(unit_id, property_name) ==
    IF ~IsInt(unit_id) THEN ValueError("unit_id must be an int")
    ELSE IF unit_id.v[1] \notin unitIds THEN ValueError("Non-valid unit_id")
    ELSE ValueError("property_name must be a string")

\* C9: addUnitProperty fails with InvalidArgument when unitId is not an int,
\* when unitId is not in getUnitIds(), or when the property name is not a
\* string, and leaves unit_properties unchanged in each of these cases.
C9_AddUnitPropertyRejectsInvalidArguments ==
    [][ (/\ ucall'.op = "addUnitProperty"
         /\ \/ ~IsInt(ucall'.args[1])
            \/ ucall'.args[1].v[1] \notin unitIds
            \/ ~IsStr(ucall'.args[2])) =>
            /\ ucall'.error = InvalidArgumentOf(ucall'.args[1], ucall'.args[2])
            /\ unit_properties' = unit_properties
      ]_vars

\* addUnitProperty was called for a unit id of getUnitIds() with a property
\* name that is no string, and raised.
C9_Witness ==
    /\ ucall.op = "addUnitProperty"
    /\ IsInt(ucall.args[1])
    /\ ucall.args[1].v[1] \in unitIds
    /\ ~IsStr(ucall.args[2])
    /\ ucall.error = ValueError("property_name must be a string")

====
